---- MODULE Spec2Model ----
(***************************************************************************)
(* Model of lib/sidechain/sidechain.js: the SidechainObject entry record,  *)
(* the MainchainOptions settings record and the MainchainClient RPC client *)
(* (a subclass of the bcurl Client transport).                             *)
(*                                                                         *)
(* JavaScript values are records [t, k, v, ref]: t is the value's kind,    *)
(* k the class of an object, v its content (a number as a one-element      *)
(* sequence, a string as its character codes, a Buffer or Array as its     *)
(* elements) and ref the identity of an object (0 for a primitive).        *)
(***************************************************************************)
EXTENDS Integers, Sequences, FiniteSets, TLC

\* ---------------------------------------------------------------- bounds

\* Largest amount a caller passes to sendBMMRequest.
MaxAmount == 2
\* Largest block count the mainchain node answers getblockcount with.
MaxBlocks == 2
\* Depth of the JavaScript call stack: one more frame overflows it.
MaxStack == 3

\* ------------------------------------------------------------- constants

\* The length every hash parameter is compared with.
HashLen == 64
\* common.THIS_SIDECHAIN: this node's own sidechain number.
THIS_SIDECHAIN == 0
\* consensus.CRITICAL_DATA_AMT: the fixed amount of a critical-data transaction.
CRITICAL_DATA_AMT == 1
\* Network.get('regtest').mainchainPort
mainchainPort == 18443

\* ------------------------------------------------------ JavaScript values

Undefined == [t |-> "undefined", k |-> "", v |-> <<>>, ref |-> 0]
Null == [t |-> "null", k |-> "", v |-> <<>>, ref |-> 0]
Num(n) == [t |-> "number", k |-> "", v |-> <<n>>, ref |-> 0]
Str(chars) == [t |-> "string", k |-> "", v |-> chars, ref |-> 0]
Obj(class, content, id) == [t |-> "object", k |-> class, v |-> content, ref |-> id]

\* A string or byte array of n copies of c.
Repeat(c, n) == [i \in 1..n |-> c]

\* typeof x, as the string JavaScript yields (typeof null is 'object').
TypeOf(x) == IF x.t = "null" THEN "object" ELSE x.t

\* x != null (false for null and undefined only).
NotNull(x) == x.t \notin {"undefined", "null"}

\* a === b: primitives by type and value, objects by identity.
StrictEq(a, b) ==
  /\ a.t = b.t
  /\ IF a.t = "object" THEN a.ref = b.ref ELSE a.v = b.v

\* Whether reading x.length throws (a property read of null or undefined).
LengthThrows(x) == x.t \in {"undefined", "null"}

\* Whether x.length === n: strings, Buffers and Arrays have a length, every
\* other value reads undefined.
LengthIs(x, n) ==
  /\ \/ x.t = "string"
     \/ x.t = "object" /\ x.k \in {"Buffer", "Array"}
  /\ Len(x.v) = n

\* The character codes of '0'..'9'.
Digits == 48..57

RECURSIVE DigitsValue(_)
DigitsValue(chars) ==
  IF chars = <<>> THEN 0
  ELSE 10 * DigitsValue(SubSeq(chars, 1, Len(chars) - 1)) + (chars[Len(chars)] - 48)

\* ToNumber(x): [nan, n]. A string converts when it is empty or all digits;
\* undefined and every object the model holds convert to NaN.
ToNumber(x) ==
  CASE x.t = "number" -> [nan |-> FALSE, n |-> x.v[1]]
    [] x.t = "null" -> [nan |-> FALSE, n |-> 0]
    [] x.t = "string" ->
         IF \A i \in 1..Len(x.v) : x.v[i] \in Digits
         THEN [nan |-> FALSE, n |-> DigitsValue(x.v)]
         ELSE [nan |-> TRUE, n |-> 0]
    [] OTHER -> [nan |-> TRUE, n |-> 0]

\* x >= n for a number n: false when x converts to NaN.
GreaterEq(x, n) == ~ToNumber(x).nan /\ ToNumber(x).n >= n

\* The character codes of the strings typeof yields.
TypeOfChars(x) ==
  CASE TypeOf(x) = "undefined" -> <<117, 110, 100, 101, 102, 105, 110, 101, 100>>
    [] TypeOf(x) = "number" -> <<110, 117, 109, 98, 101, 114>>
    [] TypeOf(x) = "string" -> <<115, 116, 114, 105, 110, 103>>
    [] OTHER -> <<111, 98, 106, 101, 99, 116>>

\* ------------------------------------------------------------- variables

VARIABLES
  entry,        \* the SidechainObject: [sidechain, hash, script, type, version]
  entryPrev,    \* its fields before the last constructor or fromOptions call
  entryOpts,    \* the options of that call: [given, f]
  entryOp,      \* "init", "construct" or "fromOptions"
  entryErr,     \* what that call threw, or "none"
  config,       \* the MainchainOptions: [network, port, headers, host, username, password]
  cfgOpts,      \* the options of the last MainchainOptions call: [given, f]
  cfgOp,        \* "init", "construct" or "static"
  cfgErr,       \* what that call threw, or "none"
  opened,       \* MainchainClient.opened
  socketClosed, \* number of times the transport's socket was closed
  lastOp,       \* the last client method called
  lastArgs,     \* its arguments
  lastCalls,    \* the RPC calls it dispatched: <<[method, params]>>
  lastErr,      \* what it threw (its promise's rejection), or "none"
  lastRet,      \* the value it returned (its promise's resolution)
  closeFrames,  \* number of close() invocations the last close() call made
  icBlocks,     \* isConnected's local variable blocks
  icConnection, \* what isConnected returned: "none", "true" or "false"
  icPending,    \* isConnected's getBlockCount call awaits its response
  icResolved    \* what that getBlockCount call resolved to, or Undefined

entryVars == <<entry, entryPrev, entryOpts, entryOp, entryErr>>
cfgVars == <<config, cfgOpts, cfgOp, cfgErr>>
clientVars == <<opened, socketClosed, lastOp, lastArgs, lastCalls,
                lastErr, lastRet, closeFrames, icBlocks, icConnection, icPending,
                icResolved>>
vars == <<entryVars, cfgVars, clientVars>>

\* A call that returned: the object as it is left.
Ok(obj) == [obj |-> obj, err |-> "none"]
\* A call that threw: the object as the throw leaves it.
Throw(obj, e) == [obj |-> obj, err |-> e]

\* ------------------------------------------------------- SidechainObject

EntryFields == {"sidechain", "hash", "script", "type", "version"}

\* new Script(): an empty script.
EmptyScript == Obj("Script", <<>>, 1)
\* Buffer.alloc(0)
EMPTY == Obj("Buffer", <<>>, 2)

\* The fields the constructor sets before it reads the options.
EntryDefaults ==
  [sidechain |-> Num(THIS_SIDECHAIN), hash |-> EMPTY, script |-> EmptyScript,
   type |-> Num(-1), version |-> Num(-1)]

\* if (options.f != null) assert(typeof options.f === ty);
\* this.f = options.f;                 (the assignment is outside the if)
AssignChecked(s, o, f, ty) ==
  IF s.err # "none" THEN s
  ELSE IF NotNull(o[f]) /\ TypeOf(o[f]) # ty
       THEN Throw(s.obj, "AssertionError")
       ELSE Ok([s.obj EXCEPT ![f] = o[f]])

\* if (options.hash != null) assert(Buffer.isBuffer(hash));
\* this.hash = options.hash;
\* The identifier hash is bound nowhere: evaluating it throws.
AssignHash(s, o) ==
  IF s.err # "none" THEN s
  ELSE IF NotNull(o.hash)
       THEN Throw(s.obj, "ReferenceError")
       ELSE Ok([s.obj EXCEPT !.hash = o.hash])

\* The five assignments that end fromOptions.
AssignAll(s, o) ==
  IF s.err # "none" THEN s
  ELSE Ok([f \in EntryFields |-> o[f]])

\* SidechainObject.fromOptions(options) on the object this.
EntryFromOptions(this, o) ==
  LET s1 == AssignChecked(Ok(this), o, "sidechain", "number")
      s2 == AssignHash(s1, o)
      s3 == AssignChecked(s2, o, "script", "object")
      s4 == AssignChecked(s3, o, "type", "number")
      s5 == AssignChecked(s4, o, "version", "number")
  IN AssignAll(s5, o)

\* new SidechainObject(options)
EntryConstructor(opts) ==
  IF opts.given THEN EntryFromOptions(EntryDefaults, opts.f) ELSE Ok(EntryDefaults)

\* The option values the callers of the model pass.
Hash32 == Obj("Buffer", Repeat(171, 32), 3)
OtherScript == Obj("Script", <<81>>, 4)
EntryOptionValues ==
  [sidechain : {Undefined, Num(3), Str(<<51>>)},
   hash : {Undefined, Hash32},
   script : {Undefined, OtherScript},
   type : {Undefined, Num(1), Num(2), Str(<<49>>)},
   version : {Undefined, Num(1)}]
EntryOptions ==
  {[given |-> FALSE, f |-> [f \in EntryFields |-> Undefined]]}
    \cup {[given |-> TRUE, f |-> o] : o \in EntryOptionValues}

\* entry = new SidechainObject(options): a constructor that throws yields no
\* object, and the caller keeps the one it had.
EntryConstruct ==
  \E opts \in EntryOptions :
    LET r == EntryConstructor(opts) IN
      /\ entry' = IF r.err = "none" THEN r.obj ELSE entry
      /\ entryPrev' = EntryDefaults
      /\ entryOpts' = opts
      /\ entryOp' = "construct"
      /\ entryErr' = r.err
      /\ UNCHANGED <<cfgVars, clientVars>>

\* entry.fromOptions(options): what a throw leaves assigned stays assigned.
EntryMerge ==
  \E opts \in EntryOptions :
    /\ opts.given
    /\ LET r == EntryFromOptions(entry, opts.f) IN
         /\ entry' = r.obj
         /\ entryPrev' = entry
         /\ entryOpts' = opts
         /\ entryOp' = "fromOptions"
         /\ entryErr' = r.err
    /\ UNCHANGED <<cfgVars, clientVars>>

\* ------------------------------------------------------ MainchainOptions

CfgFields == {"network", "port", "headers", "host", "username", "password"}

\* Network.get('regtest')
RegtestNetwork == Obj("Network", <<>>, 5)
\* {'Content-Type': 'application/json'}
JsonHeaders == Obj("Object", <<>>, 6)
\* 'localhost', 'user', 'password'
Localhost == Str(<<108, 111, 99, 97, 108, 104, 111, 115, 116>>)
User == Str(<<117, 115, 101, 114>>)
Password == Str(<<112, 97, 115, 115, 119, 111, 114, 100>>)

\* The fields the constructor sets before it reads the options.
CfgDefaults ==
  [network |-> RegtestNetwork, port |-> Num(mainchainPort), headers |-> JsonHeaders,
   host |-> Localhost, username |-> User, password |-> Password]

\* The six assignments that open fromOptions: this.f = options.f for every
\* field, undefined when the options do not hold it.
CfgAssignAll(s, o) ==
  IF s.err # "none" THEN s
  ELSE Ok([f \in CfgFields |-> o[f]])

\* if (options.f != null) { assert(typeof options.f === ty); this.f = options.f; }
CfgAssignChecked(s, o, f, ty) ==
  IF s.err # "none" \/ ~NotNull(o[f]) THEN s
  ELSE IF TypeOf(o[f]) # ty
       THEN Throw(s.obj, "AssertionError")
       ELSE Ok([s.obj EXCEPT ![f] = o[f]])

\* MainchainOptions.fromOptions(options) on the object this.
CfgFromOptions(this, opts) ==
  IF ~opts.given THEN Throw(this, "AssertionError")
  ELSE LET s0 == CfgAssignAll(Ok(this), opts.f)
           s1 == CfgAssignChecked(s0, opts.f, "network", "object")
           s2 == CfgAssignChecked(s1, opts.f, "port", "number")
           s3 == CfgAssignChecked(s2, opts.f, "host", "string")
           s4 == CfgAssignChecked(s3, opts.f, "username", "string")
       IN CfgAssignChecked(s4, opts.f, "password", "string")

\* new MainchainOptions(options)
CfgConstructor(opts) ==
  IF opts.given THEN CfgFromOptions(CfgDefaults, opts) ELSE Ok(CfgDefaults)

\* The option values the callers of the model pass.
MainNetwork == Obj("Network", <<>>, 7)
OtherHeaders == Obj("Object", <<>>, 8)
Node1 == Str(<<110, 111, 100, 101, 49>>)
CfgOptionValues ==
  [network : {Undefined, MainNetwork, Num(1)},
   port : {Undefined, Num(18332)},
   headers : {Undefined, OtherHeaders},
   host : {Undefined, Node1, Num(2)},
   username : {Undefined, Str(<<97>>)},
   password : {Undefined}]
CfgOptions ==
  {[given |-> FALSE, f |-> [f \in CfgFields |-> Undefined]]}
    \cup {[given |-> TRUE, f |-> o] : o \in CfgOptionValues}

\* config = new MainchainOptions(options), as the MainchainClient constructor
\* calls it: a constructor that throws yields no object.
CfgConstruct ==
  \E opts \in CfgOptions :
    LET r == CfgConstructor(opts) IN
      /\ config' = IF r.err = "none" THEN r.obj ELSE config
      /\ cfgOpts' = opts
      /\ cfgOp' = "construct"
      /\ cfgErr' = r.err
      /\ UNCHANGED <<entryVars, clientVars>>

\* config = MainchainOptions.fromOptions(options):
\* new MainchainOptions().fromOptions(options)
CfgStaticFromOptions ==
  \E opts \in CfgOptions :
    LET r == CfgFromOptions(CfgDefaults, opts) IN
      /\ config' = IF r.err = "none" THEN r.obj ELSE config
      /\ cfgOpts' = opts
      /\ cfgOp' = "static"
      /\ cfgErr' = r.err
      /\ UNCHANGED <<entryVars, clientVars>>

\* ------------------------------------------------------- MainchainClient

\* What a client method did: the RPC calls it dispatched, what it threw and
\* what it returned.
Dispatched(calls) == [calls |-> calls, err |-> "none", ret |-> "response"]
Failed(e) == [calls |-> <<>>, err |-> e, ret |-> "none"]

\* this.execute('/', method, params): the transport sends one JSON-RPC call
\* and the caller gets the promise of its decoded response.
Execute(method, params) == Dispatched(<<[method |-> method, params |-> params]>>)

\* assert(typeof hash === 'string' && hash.length === 64)
IsHashString(hash) == TypeOf(hash) = "string" /\ LengthIs(hash, HashLen)

\* assert(typeof hash === 'string' || hash.length === 64): "ok", or what
\* evaluating it throws.
HashOrLength(hash) ==
  IF TypeOf(hash) = "string" THEN "ok"
  ELSE IF LengthThrows(hash) THEN "TypeError"
  ELSE IF LengthIs(hash, HashLen) THEN "ok"
  ELSE "AssertionError"

\* MainchainClient.open(): return this.
open == [calls |-> <<>>, err |-> "none", ret |-> "this"]

\* The check with || in the place of &&.
BroadcastAcceptsEither(hash) == TypeOf(hash) = "string" \/ LengthIs(hash, HashLen)

\* What broadcastWithdrawalBundle accepts as its hash:
\* assert(typeof hash === 'string' && hash.length === 64)
BroadcastAccepts(hash) == IsHashString(hash)

\* MainchainClient.broadcastWithdrawalBundle(sidechain, hash)
broadcastWithdrawalBundle(sidechain, hash) ==
  IF ~BroadcastAccepts(hash) THEN Failed("AssertionError")
  ELSE Execute("receivewithdrawalbundle", <<sidechain, hash>>)

\* MainchainClient.getBlockCount()
getBlockCount == Execute("getblockcount", <<>>)

\* MainchainClient.verifyDeposit(hashMainBlock, txid, tx): the third
\* assertion compares the string typeof tx with 0.
verifyDeposit(hashMainBlock, txid, tx) ==
  IF ~IsHashString(hashMainBlock) THEN Failed("AssertionError")
  ELSE IF ~IsHashString(txid) THEN Failed("AssertionError")
  ELSE IF ~GreaterEq(Str(TypeOfChars(tx)), 0) THEN Failed("AssertionError")
  ELSE Execute("verifydeposit", <<hashMainBlock, txid, tx>>)

\* new Amount(value): a fresh object, whose identity is id, holding value.
NewAmount(value, id) == Obj("Amount", <<value>>, id)

RECURSIVE DecimalChars(_)
DecimalChars(n) ==
  IF n < 10 THEN <<48 + n>>
  ELSE DecimalChars(n \div 10) \o <<48 + (n % 10)>>

\* Amount.toString(): the canonical decimal string of the amount.
AmountToString(amt) == Str(DecimalChars(amt.v[1]))

\* The amount sendBMMRequest dispatches:
\*   let amt = new Amount(amount);
\*   if (amt === new Amount(0)) amt = new Amount(consensus.CRITICAL_DATA_AMT)
BMMAmount(amount) ==
  LET amt == NewAmount(amount.v[1], 101)
      zero == NewAmount(0, 102)
  IN IF StrictEq(amt, zero) THEN NewAmount(CRITICAL_DATA_AMT, 103) ELSE amt

\* MainchainClient.sendBMMRequest(amount, height, criticalHash, sidechain,
\*                                prevMainBlock)
sendBMMRequest(amount, height, criticalHash, sidechain, prevMainBlock) ==
  IF TypeOf(height) # "number" THEN Failed("AssertionError")
  ELSE IF HashOrLength(criticalHash) # "ok" THEN Failed(HashOrLength(criticalHash))
  ELSE IF HashOrLength(prevMainBlock) # "ok" THEN Failed(HashOrLength(prevMainBlock))
  ELSE IF ~GreaterEq(sidechain, 0) THEN Failed("AssertionError")
  ELSE Execute("createbmmcriticaldatatx",
               <<AmountToString(BMMAmount(amount)), height, criticalHash,
                 sidechain, prevMainBlock>>)

\* MainchainClient.close(), entered with depth - 1 frames of close() below
\* it: return this.close(). The frame that does not fit the stack throws
\* RangeError, and every frame below returns that rejection. frames counts
\* the invocations made; closed counts the closes of the socket.
RECURSIVE close(_)
close(depth) ==
  IF depth > MaxStack
  THEN [frames |-> depth - 1, err |-> "RangeError", closed |-> 0]
  ELSE close(depth + 1)

\* isConnected, up to its return:
\*   let blocks = this.getBlockCount().then((value) => { blocks = value });
\*   if (blocks === zero) connection = false; else connection = true;
\* blocks holds the promise then() returned when it is compared.
IsConnectedBlocks == Obj("Promise", <<>>, 104)
isConnected ==
  LET zero == Num(0)
      blocks == IsConnectedBlocks
      connection == IF StrictEq(blocks, zero) THEN "false" ELSE "true"
  IN [calls |-> getBlockCount.calls, err |-> "none", ret |-> connection]

\* The argument values the callers of the model pass.
HexA == Str(Repeat(97, HashLen))
Short == Str(Repeat(97, HashLen - 1))
Array64 == Obj("Array", Repeat(0, HashLen), 9)
HashArgs == {HexA, Short, Array64, Num(5), Undefined}
SidechainArgs == {Num(0), Num(-1)}
HeightArgs == {Num(1), Str(<<49>>)}
AmountArgs == {Num(n) : n \in 0..MaxAmount}
TxArgs == {Str(<<48, 49>>), Num(1)}

\* A method of the client is called and runs to its return.
Call(op, args, r) ==
  /\ lastOp' = op
  /\ lastArgs' = args
  /\ lastCalls' = r.calls
  /\ lastErr' = r.err
  /\ lastRet' = r.ret
  /\ UNCHANGED <<entryVars, cfgVars>>

Open ==
  /\ Call("open", <<>>, open)
  /\ UNCHANGED <<opened, socketClosed, closeFrames, icBlocks, icConnection,
                 icPending, icResolved>>

Close ==
  LET r == close(1) IN
    /\ Call("close", <<>>, [calls |-> <<>>, err |-> r.err, ret |-> "none"])
    /\ closeFrames' = r.frames
    /\ socketClosed' = socketClosed + r.closed
    /\ UNCHANGED <<opened, icBlocks, icConnection, icPending, icResolved>>

BroadcastWithdrawalBundle ==
  \E sidechain \in SidechainArgs, hash \in HashArgs :
    /\ Call("broadcastWithdrawalBundle", <<sidechain, hash>>,
            broadcastWithdrawalBundle(sidechain, hash))
    /\ UNCHANGED <<opened, socketClosed, closeFrames, icBlocks, icConnection,
                   icPending, icResolved>>

VerifyDeposit ==
  \E hashMainBlock \in HashArgs, txid \in HashArgs, tx \in TxArgs :
    /\ Call("verifyDeposit", <<hashMainBlock, txid, tx>>,
            verifyDeposit(hashMainBlock, txid, tx))
    /\ UNCHANGED <<opened, socketClosed, closeFrames, icBlocks, icConnection,
                   icPending, icResolved>>

SendBMMRequest ==
  \E amount \in AmountArgs, height \in HeightArgs, criticalHash \in HashArgs,
     sidechain \in SidechainArgs, prevMainBlock \in HashArgs :
    /\ Call("sendBMMRequest",
            <<amount, height, criticalHash, sidechain, prevMainBlock>>,
            sendBMMRequest(amount, height, criticalHash, sidechain, prevMainBlock))
    /\ UNCHANGED <<opened, socketClosed, closeFrames, icBlocks, icConnection,
                   icPending, icResolved>>

\* isConnected() runs to its return before any callback can: the response
\* of its getBlockCount call is still awaited then.
IsConnected ==
  /\ ~icPending
  /\ Call("isConnected", <<>>, isConnected)
  /\ icBlocks' = IsConnectedBlocks
  /\ icConnection' = isConnected.ret
  /\ icPending' = TRUE
  /\ icResolved' = Undefined
  /\ UNCHANGED <<opened, socketClosed, closeFrames>>

\* The getblockcount response arrives: (value) => { blocks = value }
BlockCountResponse ==
  \E value \in 0..MaxBlocks :
    /\ icPending
    /\ icBlocks' = Num(value)
    /\ icResolved' = Num(value)
    /\ icPending' = FALSE
    /\ UNCHANGED <<entryVars, cfgVars, opened, socketClosed, lastOp,
                   lastArgs, lastCalls, lastErr, lastRet, closeFrames, icConnection>>

\* The transport reports failure: the promise rejects and the callback of
\* then() is not called.
BlockCountFailure ==
  /\ icPending
  /\ icPending' = FALSE
  /\ UNCHANGED <<entryVars, cfgVars, opened, socketClosed, lastOp,
                 lastArgs, lastCalls, lastErr, lastRet, closeFrames, icBlocks,
                 icConnection, icResolved>>

\* -------------------------------------------------------- specifications

\* new SidechainObject(), new MainchainOptions() and new MainchainClient().
Init ==
  /\ entry = EntryDefaults
  /\ entryPrev = EntryDefaults
  /\ entryOpts = [given |-> FALSE, f |-> [f \in EntryFields |-> Undefined]]
  /\ entryOp = "init"
  /\ entryErr = "none"
  /\ config = CfgDefaults
  /\ cfgOpts = [given |-> FALSE, f |-> [f \in CfgFields |-> Undefined]]
  /\ cfgOp = "init"
  /\ cfgErr = "none"
  /\ opened = FALSE
  /\ socketClosed = 0
  /\ lastOp = "new"
  /\ lastArgs = <<>>
  /\ lastCalls = <<>>
  /\ lastErr = "none"
  /\ lastRet = "none"
  /\ closeFrames = 0
  /\ icBlocks = Undefined
  /\ icConnection = "none"
  /\ icPending = FALSE
  /\ icResolved = Undefined

\* The client.
Next ==
  \/ Open
  \/ Close
  \/ BroadcastWithdrawalBundle
  \/ VerifyDeposit
  \/ SendBMMRequest
  \/ IsConnected
  \/ BlockCountResponse
  \/ BlockCountFailure

Spec == Init /\ [][Next]_vars

\* The entry record.
NextEntry == EntryConstruct \/ EntryMerge

SpecEntry == Init /\ [][NextEntry]_vars

\* The settings record.
NextConfig == CfgConstruct \/ CfgStaticFromOptions

SpecConfig == Init /\ [][NextConfig]_vars

\* ----------------------------------------------------------------- claims

\* A 64-character string, as the claims mean it.
Is64CharString(x) == x.t = "string" /\ Len(x.v) = 64

\* A field of entry options that is present with a type other than the
\* declared one: sidechain, type and version are numbers, hash is a Buffer
\* of 32 bytes, script is an object.
EntryWrongTyped(o) ==
  \/ \E f \in {"sidechain", "type", "version"} : o[f] # Undefined /\ o[f].t # "number"
  \/ o.hash # Undefined /\ ~(o.hash.t = "object" /\ o.hash.k = "Buffer" /\ Len(o.hash.v) = 32)
  \/ o.script # Undefined /\ o.script.t # "object"

\* C1: after every fromOptions call on an entry, each of the five fields
\* that the options do not hold has the value it had before the call, and a
\* call whose options are well typed sets the fields they hold.
C1_MergeKeepsAbsentFields ==
  entryOp = "fromOptions" =>
    /\ \A f \in EntryFields :
         entryOpts.f[f] = Undefined => entry[f] = entryPrev[f]
    /\ ~EntryWrongTyped(entryOpts.f) =>
         /\ entryErr = "none"
         /\ \A f \in EntryFields :
              entryOpts.f[f] # Undefined => entry[f] = entryOpts.f[f]

\* C2: a fromOptions call whose options hold a wrong-typed field fails and
\* leaves all five fields of the entry as they were.
C2_FailedMergeChangesNothing ==
  (entryOp = "fromOptions" /\ EntryWrongTyped(entryOpts.f)) =>
    /\ entryErr # "none"
    /\ entry = entryPrev

\* C3: a close() call returns without error, having invoked close() once
\* and closed the transport's socket once.
C3_CloseReleasesOnce ==
  lastOp = "close" =>
    /\ lastErr = "none"
    /\ closeFrames = 1
    /\ socketClosed = 1

\* C4: after open() the client's opened flag is set, the client itself was
\* returned and no RPC call was dispatched.
C4_OpenSetsOpened ==
  lastOp = "open" =>
    /\ opened
    /\ lastRet = "this"
    /\ lastCalls = <<>>

\* C5: once the getBlockCount call of isConnected() has resolved,
\* isConnected() returned false exactly when it resolved to 0.
C5_IsConnectedFollowsBlockCount ==
  icResolved # Undefined =>
    (icConnection = "false" <=> icResolved = Num(0))

\* C6: a sendBMMRequest call that dispatches sends createbmmcriticaldatatx
\* whose first parameter is the canonical string of CRITICAL_DATA_AMT when
\* the amount is 0 and the canonical string of the amount otherwise.
C6_BMMAmountDefaultsOnZero ==
  (lastOp = "sendBMMRequest" /\ lastErr = "none") =>
    /\ Len(lastCalls) = 1
    /\ lastCalls[1].method = "createbmmcriticaldatatx"
    /\ lastCalls[1].params[1] =
         IF lastArgs[1] = Num(0)
         THEN Str(DecimalChars(CRITICAL_DATA_AMT))
         ELSE Str(DecimalChars(lastArgs[1].v[1]))

\* C7: sendBMMRequest dispatches exactly when criticalHash and prevMainBlock
\* are 64-character strings, height is a number and sidechain >= 0, and
\* fails, dispatching nothing, otherwise.
C7_BMMHashValidation ==
  lastOp = "sendBMMRequest" =>
    IF /\ Is64CharString(lastArgs[3])
       /\ Is64CharString(lastArgs[5])
       /\ lastArgs[2].t = "number"
       /\ lastArgs[4].t = "number" /\ lastArgs[4].v[1] >= 0
    THEN lastErr = "none" /\ Len(lastCalls) = 1
    ELSE lastErr # "none" /\ lastCalls = <<>>

\* C8: verifyDeposit with 64-character mainBlockHash and txid and any
\* txPayload passes validation and dispatches the one call verifydeposit
\* with its three arguments, returning the response.
C8_VerifyDepositDispatches ==
  (/\ lastOp = "verifyDeposit"
   /\ Is64CharString(lastArgs[1])
   /\ Is64CharString(lastArgs[2])) =>
    /\ lastErr = "none"
    /\ lastCalls = <<[method |-> "verifydeposit", params |-> lastArgs]>>
    /\ lastRet = "response"

\* C9: broadcastWithdrawalBundle(s, h) with a 64-character h and s >= 0
\* dispatches the one call receivewithdrawalbundle with params [s, h]; with
\* an h that is not of length 64 it fails with the assertion's validation
\* error and dispatches nothing.
C9_BroadcastWithdrawalBundle ==
  lastOp = "broadcastWithdrawalBundle" =>
    /\ (Is64CharString(lastArgs[2]) /\ lastArgs[1].v[1] >= 0) =>
         /\ lastErr = "none"
         /\ lastCalls = <<[method |-> "receivewithdrawalbundle",
                           params |-> <<lastArgs[1], lastArgs[2]>>]>>
         /\ lastRet = "response"
    /\ Len(lastArgs[2].v) # 64 =>
         /\ lastErr = "AssertionError"
         /\ lastCalls = <<>>

\* C9's case: a bundle hash of 64 characters was broadcast for sidechain 0
\* and one call went out.
C9_Witness ==
  /\ lastOp = "broadcastWithdrawalBundle"
  /\ lastArgs = <<Num(0), HexA>>
  /\ Len(lastCalls) = 1

\* C10: a MainchainOptions built from options holds its default in every
\* field the options do not hold.
C10_AbsentFieldsKeepDefaults ==
  (cfgOp \in {"construct", "static"} /\ cfgErr = "none") =>
    \A f \in CfgFields :
      cfgOpts.f[f] = Undefined => config[f] = CfgDefaults[f]

====
